---- MODULE Spec2Model ----
(***************************************************************************)
(* TinyChat client (src/client/client.py): the handshake of principal(),   *)
(* the polling task verificar_mensagens(), the input task                  *)
(* loop_entrada_e_envio() and the shutdown of principal(), run against a   *)
(* session server that answers the three HTTP operations.                  *)
(*                                                                         *)
(* Strings are sequences of one-character strings, so that strip(),        *)
(* lower(), startswith() and the f-string of the printed line are computed *)
(* rather than assumed.  A message list is a sequence of records           *)
(* [from, text, ts] (List[Dict[str, Any]], client.py:42).                  *)
(***************************************************************************)
EXTENDS Integers, Sequences, FiniteSets, TLC

(* ------------------------------ bounds --------------------------------- *)
\* longest message list the server holds
MaxLen == 3

(* --------------------------- small input sets --------------------------- *)
\* what the operator may type at "Nome de usuário: "
RawNames == { <<"a">>, <<" ", "a", " ">> }
\* what the operator may type at "Código da sessão: "
RawCodes == { <<"1">>, <<"2", " ">> }
\* what the operator may type at the (s/n) prompt
RawYn == { <<"s">>, <<" ", "S", "i", "m">>, <<"n">>, <<>> }
\* what the operator may type at the message prompt
RawLines == { <<"h", "i">>, <<" ", "h", "i", " ">>, <<" ">>, <<>> }
\* the one session code the server may know
Room == <<"1">>
\* senders and texts of messages appended by other clients
Senders == { <<"a">>, <<"b">> }
Texts == { <<"h", "i">> }
\* python's None, and the non-string outcomes of a blocking read
None == <<"<None>">>
EOFError == <<"<EOFError>">>
KeyboardInterrupt == <<"<KeyboardInterrupt>">>
\* a local name (a string, an index) that is not bound yet
Unbound == <<"<unbound>">>
NoIndex == 0 - 1
\* credentials a 200 connect response may carry: absent, empty, non-empty
TokenReplies == { None, <<>>, <<"t">> }

(* ------------------------------ str helpers ----------------------------- *)
IsSpace(c) == c = " "

RECURSIVE LStrip(_)
LStrip(s) == IF s = <<>> THEN s
             ELSE IF IsSpace(Head(s)) THEN LStrip(Tail(s)) ELSE s

RECURSIVE RStrip(_)
RStrip(s) == IF s = <<>> THEN s
             ELSE IF IsSpace(s[Len(s)]) THEN RStrip(SubSeq(s, 1, Len(s) - 1)) ELSE s

\* str.strip()
Strip(s) == RStrip(LStrip(s))

LowerChar(c) == CASE c = "S" -> "s"
                  [] c = "N" -> "n"
                  [] OTHER -> c
\* str.lower()
Lower(s) == [i \in 1..Len(s) |-> LowerChar(s[i])]

\* str.startswith(p)
StartsWith(s, p) == Len(s) >= Len(p) /\ SubSeq(s, 1, Len(p)) = p

\* a check for None alone, which lets an empty credential through
TruthyNotNone(t) == t # None

\* python truthiness of the value returned by data.get("token")
Truthy(t) == t # None /\ t # <<>>

(* ------------------------------- state ---------------------------------- *)
VARIABLES
    srvExists,      \* server: the session Room exists
    srvMsgs,        \* server: the message list of Room
    ppc,            \* principal(): position
    username,       \* principal(): username
    session_code,   \* principal(): session_code
    token,          \* principal(): token
    stop_event,     \* asyncio.Event shared by principal and the poll task
    pollpc,         \* verificar_mensagens(): position
    poll_code,      \* verificar_mensagens(): session_code argument
    last_index,     \* verificar_mensagens(): last_index
    sendpc,         \* loop_entrada_e_envio(): position
    send_code,      \* loop_entrada_e_envio(): session_code argument
    send_token,     \* loop_entrada_e_envio(): token argument
    text,           \* loop_entrada_e_envio(): text
    printed,        \* stdout: the "[from] text" lines, with the list index of each
    console,        \* stdout: the diagnostic line printed by the last step, "" if none
    step,           \* history: the name of the last step of the client, "" for a server step
    hist            \* history of the run (observations, not program state)

vars == << srvExists, srvMsgs, ppc, username, session_code, token, stop_event,
           pollpc, poll_code, last_index, sendpc, send_code, send_token, text,
           printed, console, step, hist >>

srvVars == << srvExists, srvMsgs >>
mainVars == << ppc, username, session_code, token >>
pollVars == << pollpc, poll_code, last_index >>
sendVars == << sendpc, send_code, send_token, text >>

Message == [from : Senders, text : Texts, ts : {0}]

\* the process is alive: principal() has neither returned nor raised
Running == ppc \notin {"returned", "interrupted", "crashed"}

\* input() called on the event loop: no task runs while the input task reads
LoopHeldByRead == Running /\ sendpc # "read"

\* client.py:64  run_in_executor(None, solicitar_input, ""): the blocking read
\* runs in a worker thread, so the event loop can run the poll task at any time
\* while the process is alive
LoopFree == Running

(* ------------------------------- server --------------------------------- *)
\* status of GET/POST on /api/sessions/{code}/...: 404 for an unknown code,
\* otherwise success or a transient non-404 failure
Statuses(code) == IF srvExists /\ code = Room THEN {200, 500} ELSE {404, 500}

\* what a blocking input() call may produce
Reads(raw) == raw \cup {EOFError, KeyboardInterrupt}

(* ------------------------- printing of messages ------------------------- *)
\* client.py:109  print(f"[{m_from}] {m_text}")
FormatLine(m) == <<"[">> \o m.from \o <<"]", " ">> \o m.text

\* only the newest message is printed: msgs[-1:]
NewSliceLastOnly(msgs, idx) ==
    << [pos |-> Len(msgs) - 1, line |-> FormatLine(msgs[Len(msgs)])] >>

\* the slice taken one element too far: msgs[last_index + 1:]
NewSliceSkipFirst(msgs, idx) ==
    [k \in 1..(Len(msgs) - idx - 1) |-> [pos |-> idx + k, line |-> FormatLine(msgs[idx + k + 1])]]

\* client.py:102-109: the lines printed for msgs[last_index:], each with its
\* (0-based) list index
NewSlice(msgs, idx) ==
    [k \in 1..(Len(msgs) - idx) |-> [pos |-> idx + k - 1, line |-> FormatLine(msgs[idx + k])]]

\* the comparison of line 101 made against the index of the last message
HasNewStrict(msgs, idx) == msgs # <<>> /\ Len(msgs) > idx + 1

\* client.py:101  if msgs and len(msgs) > last_index
HasNew(msgs, idx) == msgs # <<>> /\ Len(msgs) > idx

\* the index of the last message instead of the count of messages
NextIndexLast(msgs, idx) == IF HasNew(msgs, idx) THEN Len(msgs) - 1 ELSE idx

\* the assignment moved out of the if: last_index = len(msgs) after every fetch
NextIndexAlways(msgs, idx) == Len(msgs)

\* client.py:110  last_index = len(msgs), inside the if of line 101
NextIndex(msgs, idx) == IF HasNew(msgs, idx) THEN Len(msgs) ELSE idx

\* the history is not skipped: last_index starts at 0
InitialIndexZero(initial) == 0

\* client.py:88  last_index = len(initial)
InitialIndex(initial) == Len(initial)

\* client.py:147-151: the requested username already appears as a sender
Usado(msgs, name) == \E i \in 1..Len(msgs) : msgs[i].from = name

\* the loop condition ignores the stop signal
LoopHeadAlways(stopped) == "fetch"

\* client.py:97  while not stop_event.is_set(): the next position of the poll
\* task at the head of the loop (the fetch of line 99 is issued without suspension)
LoopHead(stopped) == IF stopped THEN "done" ELSE "fetch"

\* the step named `name` prints the diagnostic `line` ("" for none)
Log(name, line) == step' = name /\ console' = line

(* -------------------------------- Init ---------------------------------- *)
Init ==
    /\ srvExists \in BOOLEAN
    /\ srvMsgs = <<>>
    /\ ppc = "prompt_user"
    /\ username = Unbound
    /\ session_code = Unbound
    /\ token = Unbound
    /\ stop_event = FALSE
    /\ pollpc = "idle"
    /\ poll_code = Unbound
    /\ last_index = NoIndex
    /\ sendpc = "idle"
    /\ send_code = Unbound
    /\ send_token = Unbound
    /\ text = Unbound
    /\ printed = <<>>
    /\ console = "Usando API em"
    /\ hist = [init |-> "none", initLen |-> 0, fetched |-> <<>>, extending |-> TRUE,
               polled |-> FALSE, connCode |-> Unbound]
    /\ step = ""

(* ------------------------------ the server ------------------------------ *)
\* another client's message is stored
SrvAppend ==
    /\ Running /\ srvExists /\ Len(srvMsgs) < MaxLen
    /\ \E m \in Message : srvMsgs' = Append(srvMsgs, m)
    /\ Log("", "")
    /\ UNCHANGED << srvExists, mainVars, stop_event, pollVars, sendVars, printed, hist >>

\* the server loses a tail of the list (not an append-only server)
SrvTruncate ==
    /\ Running /\ srvExists /\ srvMsgs # <<>>
    /\ \E k \in 0..(Len(srvMsgs) - 1) : srvMsgs' = SubSeq(srvMsgs, 1, k)
    /\ Log("", "")
    /\ UNCHANGED << srvExists, mainVars, stop_event, pollVars, sendVars, printed, hist >>

\* the session is removed server-side
SrvRemove ==
    /\ Running /\ srvExists
    /\ srvExists' = FALSE
    /\ srvMsgs' = <<>>
    /\ Log("", "")
    /\ UNCHANGED << mainVars, stop_event, pollVars, sendVars, printed, hist >>

\* the session is created server-side
SrvCreate ==
    /\ Running /\ ~srvExists
    /\ srvExists' = TRUE
    /\ srvMsgs' = <<>>
    /\ Log("", "")
    /\ UNCHANGED << mainVars, stop_event, pollVars, sendVars, printed, hist >>

(* ----------------------- principal(): the handshake --------------------- *)
\* client.py:131, 133-135  username = input("Nome de usuário: ").strip()
PromptUsername ==
    /\ ppc = "prompt_user"
    /\ \E r \in Reads(RawNames) :
         IF r \in {EOFError, KeyboardInterrupt}
         THEN /\ ppc' = "returned"
              /\ Log("PromptUsername", "Saindo")
              /\ UNCHANGED username
         ELSE /\ username' = Strip(r)
              /\ ppc' = "prompt_code"
              /\ Log("PromptUsername", "")
    /\ UNCHANGED << srvVars, session_code, token, stop_event, pollVars, sendVars, printed, hist >>

\* client.py:132, 133-135  session_code = input("Código da sessão: ").strip();
\* the list request of line 139 is then in flight
PromptCode ==
    /\ ppc = "prompt_code"
    /\ \E r \in Reads(RawCodes) :
         IF r \in {EOFError, KeyboardInterrupt}
         THEN /\ ppc' = "returned"
              /\ Log("PromptCode", "Saindo")
              /\ UNCHANGED session_code
         ELSE /\ session_code' = Strip(r)
              /\ ppc' = "pre_list"
              /\ Log("PromptCode", "")
    /\ UNCHANGED << srvVars, username, token, stop_event, pollVars, sendVars, printed, hist >>

\* client.py:139-155: the answer to the list request before connecting
PreListNotFound ==
    /\ ppc = "pre_list"
    /\ 404 \in Statuses(session_code)
    /\ Log("PreListNotFound", "Sessao nao encontrada. Tente novamente.")
    /\ ppc' = "prompt_user"
    /\ UNCHANGED << srvVars, username, session_code, token, stop_event, pollVars, sendVars, printed, hist >>

PreListError ==
    /\ ppc = "pre_list"
    /\ 500 \in Statuses(session_code)
    /\ Log("PreListError", "Aviso: nao foi possivel listar mensagens antes de conectar")
    /\ ppc' = IF Usado(<<>>, username) THEN "confirm" ELSE "connect"
    /\ UNCHANGED << srvVars, username, session_code, token, stop_event, pollVars, sendVars, printed, hist >>

PreListOk ==
    /\ ppc = "pre_list"
    /\ 200 \in Statuses(session_code)
    /\ ppc' = IF Usado(srvMsgs, username) THEN "confirm" ELSE "connect"
    /\ Log("PreListOk", "")
    /\ UNCHANGED << srvVars, username, session_code, token, stop_event, pollVars, sendVars, printed, hist >>

\* client.py:153-155: the (s/n) prompt; it stands outside every try block of
\* principal(), so EOFError leaves principal() and asyncio.run() and passes the
\* `except KeyboardInterrupt` of line 189, which catches KeyboardInterrupt only
ConfirmName ==
    /\ ppc = "confirm"
    /\ \E r \in Reads(RawYn) :
         CASE r = EOFError ->
                /\ ppc' = "crashed"
                /\ Log("ConfirmName", "Traceback: EOFError")
           [] r = KeyboardInterrupt ->
                /\ ppc' = "interrupted"
                /\ Log("ConfirmName", "Interrompido pelo usuario")
           [] OTHER ->
                /\ ppc' = IF StartsWith(Lower(Strip(r)), <<"s">>) THEN "prompt_user" ELSE "connect"
                /\ Log("ConfirmName", "")
    /\ UNCHANGED << srvVars, username, session_code, token, stop_event, pollVars, sendVars, printed, hist >>

\* client.py:22-23, 165-167
ConnectNotFound ==
    /\ ppc = "connect"
    /\ 404 \in Statuses(session_code)
    /\ Log("ConnectNotFound", "Sessao nao encontrada. Tente novamente.")
    /\ ppc' = "prompt_user"
    /\ UNCHANGED << srvVars, username, session_code, token, stop_event, pollVars, sendVars, printed, hist >>

\* the RuntimeError of conectar() is not caught: it leaves principal()
ConnectErrorFatal ==
    /\ ppc = "connect"
    /\ 500 \in Statuses(session_code)
    /\ Log("ConnectError", "Traceback: RuntimeError")
    /\ ppc' = "crashed"
    /\ UNCHANGED << srvVars, username, session_code, token, stop_event, pollVars, sendVars, printed, hist >>

\* client.py:24-26, 168-170
ConnectError ==
    /\ ppc = "connect"
    /\ 500 \in Statuses(session_code)
    /\ Log("ConnectError", "Erro ao conectar")
    /\ ppc' = "prompt_user"
    /\ UNCHANGED << srvVars, username, session_code, token, stop_event, pollVars, sendVars, printed, hist >>

\* client.py:173-178: stop_event is created, both tasks are created with the
\* principal's session_code and token, and principal() awaits send_task
StartTasks(code, tok) ==
    /\ stop_event' = FALSE
    /\ pollpc' = "init_fetch"
    /\ poll_code' = code
    /\ sendpc' = "read"
    /\ send_code' = code
    /\ send_token' = tok
    /\ ppc' = "await_send"

\* client.py:27-28, 159-164, 173-178: a 200 answer to connect
ConnectOk ==
    /\ ppc = "connect"
    /\ 200 \in Statuses(session_code)
    /\ \E t \in TokenReplies :
         /\ token' = t
         /\ IF ~Truthy(t)
            THEN /\ Log("ConnectOk", "Resposta invalida do servidor (token faltando).")
                 /\ ppc' = "prompt_user"
                 /\ UNCHANGED << stop_event, pollpc, poll_code, sendpc, send_code, send_token, hist >>
            ELSE /\ Log("ConnectOk", "Conectado com sucesso!")
                 /\ StartTasks(session_code, t)
                 /\ hist' = [hist EXCEPT !.connCode = session_code]
    /\ UNCHANGED << srvVars, username, session_code, last_index, text, printed >>

(* ------------------- verificar_mensagens(): the poll task --------------- *)
\* s is a prefix of t
IsPrefix(s, t) == Len(s) <= Len(t) /\ SubSeq(t, 1, Len(s)) = s

\* client.py:86-88: the initial fetch answers 200
InitFetchOk ==
    /\ LoopFree /\ pollpc = "init_fetch"
    /\ 200 \in Statuses(poll_code)
    /\ last_index' = InitialIndex(srvMsgs)
    /\ pollpc' = LoopHead(stop_event)
    /\ hist' = [hist EXCEPT !.init = "ok", !.initLen = Len(srvMsgs), !.fetched = srvMsgs]
    /\ Log("InitFetchOk", "")
    /\ UNCHANGED << srvVars, mainVars, stop_event, poll_code, sendVars, printed >>

\* NotFound of the initial fetch handled by the general except: start from 0
InitFetchNotFoundEntersLoop ==
    /\ LoopFree /\ pollpc = "init_fetch"
    /\ 404 \in Statuses(poll_code)
    /\ last_index' = 0
    /\ pollpc' = LoopHead(stop_event)
    /\ hist' = [hist EXCEPT !.init = "notfound"]
    /\ Log("InitFetchNotFound", "")
    /\ UNCHANGED << srvVars, mainVars, stop_event, poll_code, sendVars, printed >>

\* client.py:89-92: the initial fetch answers 404
InitFetchNotFound ==
    /\ LoopFree /\ pollpc = "init_fetch"
    /\ 404 \in Statuses(poll_code)
    /\ Log("InitFetchNotFound", "Sessao removida no servidor. Encerrando verificacao.")
    /\ stop_event' = TRUE
    /\ pollpc' = "done"
    /\ hist' = [hist EXCEPT !.init = "notfound"]
    /\ UNCHANGED << srvVars, mainVars, poll_code, last_index, sendVars, printed >>

\* any failure of the initial fetch ends the task
InitFetchErrorReturns ==
    /\ LoopFree /\ pollpc = "init_fetch"
    /\ 500 \in Statuses(poll_code)
    /\ stop_event' = TRUE
    /\ pollpc' = "done"
    /\ hist' = [hist EXCEPT !.init = "error"]
    /\ Log("InitFetchError", "Sessao removida no servidor. Encerrando verificacao.")
    /\ UNCHANGED << srvVars, mainVars, poll_code, last_index, sendVars, printed >>

\* client.py:93-95: the initial fetch fails otherwise
InitFetchError ==
    /\ LoopFree /\ pollpc = "init_fetch"
    /\ 500 \in Statuses(poll_code)
    /\ last_index' = 0
    /\ pollpc' = LoopHead(stop_event)
    /\ hist' = [hist EXCEPT !.init = "error"]
    /\ Log("InitFetchError", "")
    /\ UNCHANGED << srvVars, mainVars, stop_event, poll_code, sendVars, printed >>

\* client.py:99-112: a poll answers 200
PollOk ==
    /\ LoopFree /\ pollpc = "fetch"
    /\ 200 \in Statuses(poll_code)
    /\ LET msgs == srvMsgs IN
         /\ printed' = IF HasNew(msgs, last_index)
                       THEN printed \o NewSlice(msgs, last_index)
                       ELSE printed
         /\ last_index' = NextIndex(msgs, last_index)
         /\ hist' = [hist EXCEPT !.polled = TRUE,
                                 !.fetched = IF hist.extending /\ IsPrefix(hist.fetched, msgs) THEN msgs ELSE <<>>,
                                 !.extending = hist.extending /\ IsPrefix(hist.fetched, msgs)]
    /\ pollpc' = "sleep"
    /\ Log("PollOk", "")
    /\ UNCHANGED << srvVars, mainVars, stop_event, poll_code, sendVars >>

\* NotFound handled as any other failure: logged, and the loop goes on
PollNotFoundTransient ==
    /\ LoopFree /\ pollpc = "fetch"
    /\ 404 \in Statuses(poll_code)
    /\ Log("PollNotFound", "Erro ao buscar mensagens")
    /\ pollpc' = "sleep"
    /\ UNCHANGED << srvVars, mainVars, stop_event, poll_code, last_index, sendVars, printed, hist >>

\* client.py:113-116: a poll answers 404
PollNotFound ==
    /\ LoopFree /\ pollpc = "fetch"
    /\ 404 \in Statuses(poll_code)
    /\ Log("PollNotFound", "Sessao removida no servidor. Encerrando verificacao.")
    /\ stop_event' = TRUE
    /\ pollpc' = "done"
    /\ UNCHANGED << srvVars, mainVars, poll_code, last_index, sendVars, printed, hist >>

\* every failure handled as NotFound: the signal is set and the task returns
PollErrorFatal ==
    /\ LoopFree /\ pollpc = "fetch"
    /\ 500 \in Statuses(poll_code)
    /\ Log("PollError", "Erro ao buscar mensagens")
    /\ stop_event' = TRUE
    /\ pollpc' = "done"
    /\ UNCHANGED << srvVars, mainVars, poll_code, last_index, sendVars, printed, hist >>

\* client.py:117-120: a poll fails otherwise
PollError ==
    /\ LoopFree /\ pollpc = "fetch"
    /\ 500 \in Statuses(poll_code)
    /\ Log("PollError", "Erro ao buscar mensagens")
    /\ pollpc' = "sleep"
    /\ UNCHANGED << srvVars, mainVars, stop_event, poll_code, last_index, sendVars, printed, hist >>

\* client.py:112/120 then 97: the sleep ends and the loop condition is evaluated
PollWake ==
    /\ LoopFree /\ pollpc = "sleep"
    /\ pollpc' = LoopHead(stop_event)
    /\ Log("PollWake", "")
    /\ UNCHANGED << srvVars, mainVars, stop_event, poll_code, last_index, sendVars, printed, hist >>

(* ------------------ loop_entrada_e_envio(): the input task -------------- *)
\* the input task raises the stop signal itself when the operator ends the input
SendReadSignals ==
    /\ Running /\ sendpc = "read"
    /\ \E r \in Reads(RawLines) :
         IF r \in {EOFError, KeyboardInterrupt}
         THEN /\ Log("SendRead", "Saindo...")
              /\ sendpc' = "done"
              /\ stop_event' = TRUE
              /\ UNCHANGED text
         ELSE /\ text' = Strip(r)
              /\ sendpc' = IF Strip(r) = <<>> THEN "read" ELSE "sending"
              /\ Log("SendRead", "")
              /\ UNCHANGED stop_event
    /\ UNCHANGED << srvVars, mainVars, pollVars, send_code, send_token, printed, hist >>

\* client.py:64-71: one line is read in the executor
SendRead ==
    /\ Running /\ sendpc = "read"
    /\ \E r \in Reads(RawLines) :
         IF r \in {EOFError, KeyboardInterrupt}
         THEN /\ Log("SendRead", "Saindo...")
              /\ sendpc' = "done"
              /\ UNCHANGED text
         ELSE /\ text' = Strip(r)
              /\ sendpc' = IF Strip(r) = <<>> THEN "read" ELSE "sending"
              /\ Log("SendRead", "")
    /\ UNCHANGED << srvVars, mainVars, stop_event, pollVars, send_code, send_token, printed, hist >>

\* client.py:35-37, 73: the send answers 200 or 204
SendOk ==
    /\ Running /\ sendpc = "sending"
    /\ 200 \in Statuses(send_code)
    /\ Len(srvMsgs) < MaxLen
    /\ srvMsgs' = Append(srvMsgs, [from |-> username, text |-> text, ts |-> 0])
    /\ sendpc' = "read"
    /\ Log("SendOk", "")
    /\ UNCHANGED << srvExists, mainVars, stop_event, pollVars, send_code, send_token, text, printed, hist >>

\* the failure of a send is not caught: it ends the input task
SendFailEndsLoop ==
    /\ Running /\ sendpc = "sending"
    /\ Log("SendFail", "Erro ao enviar mensagem")
    /\ sendpc' = "done"
    /\ UNCHANGED << srvVars, mainVars, stop_event, pollVars, send_code, send_token, text, printed, hist >>

\* client.py:38-39, 74-75: the send answers anything else, or the transport fails
SendFail ==
    /\ Running /\ sendpc = "sending"
    /\ Log("SendFail", "Erro ao enviar mensagem")
    /\ sendpc' = "read"
    /\ UNCHANGED << srvVars, mainVars, stop_event, pollVars, send_code, send_token, text, printed, hist >>

(* ----------------------- principal(): the shutdown ---------------------- *)
\* send_task is not awaited: the signal is set while the input task still runs
CoordFinallyEarly ==
    /\ ppc = "await_send"
    /\ stop_event' = TRUE
    /\ ppc' = "wait_poll"
    /\ Log("CoordFinally", "")
    /\ UNCHANGED << srvVars, username, session_code, token, pollVars, sendVars, printed, hist >>

\* client.py:178-183: send_task is done; stop_event.set(); the bounded wait starts.
\* No code of the file cancels a task, so the CancelledError of line 179 is
\* raised only by the runner when the process is already ending.
CoordFinally ==
    /\ ppc = "await_send"
    /\ sendpc = "done"
    /\ stop_event' = TRUE
    /\ ppc' = "wait_poll"
    /\ Log("CoordFinally", "")
    /\ UNCHANGED << srvVars, username, session_code, token, pollVars, sendVars, printed, hist >>

\* client.py:183: asyncio.wait returns because poll_task is done
WaitPollDone ==
    /\ ppc = "wait_poll"
    /\ pollpc = "done"
    /\ ppc' = "returned"
    /\ Log("WaitPollDone", "")
    /\ UNCHANGED << srvVars, username, session_code, token, stop_event, pollVars, sendVars, printed, hist >>

\* asyncio.wait without a timeout: it returns only when poll_task is done
WaitForever ==
    /\ FALSE
    /\ UNCHANGED vars

\* client.py:183: asyncio.wait returns because timeout=2.0 elapsed
WaitTimeout ==
    /\ ppc = "wait_poll"
    /\ pollpc # "done"
    /\ ppc' = "returned"
    /\ Log("WaitTimeout", "")
    /\ UNCHANGED << srvVars, username, session_code, token, stop_event, pollVars, sendVars, printed, hist >>

(* ----------------------------- specification ---------------------------- *)
Next ==
    \/ SrvAppend \/ SrvTruncate \/ SrvRemove \/ SrvCreate
    \/ PromptUsername \/ PromptCode
    \/ PreListNotFound \/ PreListError \/ PreListOk
    \/ ConfirmName
    \/ ConnectNotFound \/ ConnectError \/ ConnectOk
    \/ InitFetchOk \/ InitFetchNotFound \/ InitFetchError
    \/ PollOk \/ PollNotFound \/ PollError \/ PollWake
    \/ SendRead \/ SendOk \/ SendFail
    \/ CoordFinally \/ WaitPollDone \/ WaitTimeout

Spec == Init /\ [][Next]_vars

\* the event loop runs a ready callback: principal() resumes once send_task is
\* done, and the timeout of asyncio.wait fires
FairSpec == Spec /\ WF_vars(CoordFinally) /\ WF_vars(WaitPollDone) /\ WF_vars(WaitTimeout)

\* the event loop runs the poll task when its sleep has ended, and every fetch
\* of the poll task is answered; nothing is assumed of the operator
PollFairSpec ==
    /\ Spec
    /\ WF_vars(PollWake)
    /\ WF_vars(InitFetchOk \/ InitFetchNotFound \/ InitFetchError)
    /\ WF_vars(PollOk \/ PollNotFound \/ PollError)

\* client.py:97-120 with polls that succeed again and again: the steps of the
\* poll task are taken and, whenever a poll can succeed again and again, one
\* does; failed polls (PollError) may come in between
DeliverySpec == PollFairSpec /\ SF_vars(PollOk)

(* -------------------------------- claims -------------------------------- *)
\* the line "[sender] text" of a message, written out
ExpectedLine(m) == <<"[">> \o m.from \o <<"]", " ">> \o m.text

\* the initial fetch has answered and the poll loop was entered
Initialized == hist.init \in {"ok", "error"}

\* C1: while every list returned to the poll task extends the list returned
\* before it (no NotFound in between), the printed lines are exactly the
\* messages at the list positions from the initial cursor up to the cursor,
\* each once and in list order.
C1_EachNewMessageOnceInOrder ==
    (Initialized /\ hist.extending) =>
        /\ last_index <= Len(hist.fetched)
        /\ printed = [k \in 1..(last_index - hist.initLen) |->
                         [pos |-> hist.initLen + k - 1,
                          line |-> ExpectedLine(hist.fetched[hist.initLen + k])]]

\* two different messages, appended after a one-message history, were printed
C1_Witness ==
    /\ hist.init = "ok" /\ hist.extending /\ hist.initLen = 1
    /\ Len(printed) = 2
    /\ printed[1].line # printed[2].line

C3_PollIdempotent ==
    [][ (/\ step' = "PollOk"
         /\ \/ Len(srvMsgs) = last_index
            \/ hist.extending /\ srvMsgs = hist.fetched)
        => (printed' = printed /\ last_index' = last_index) ]_vars

\* after an initial fetch of MaxLen - 1 messages, a poll has just returned the
\* same list: nothing was printed and the cursor is still MaxLen - 1
C3_Witness ==
    /\ hist.init = "ok" /\ hist.initLen = MaxLen - 1 /\ hist.polled /\ hist.extending
    /\ step = "PollOk"
    /\ srvMsgs = hist.fetched
    /\ last_index = MaxLen - 1
    /\ printed = <<>>

\* C4: once the initial fetch has set it, no step lowers last_index, whatever
\* the fetches return.
C4_CursorMonotonic ==
    [][ pollpc \notin {"idle", "init_fetch"} => last_index' >= last_index ]_vars

\* a poll has just returned a list shorter than the cursor
C4_Witness ==
    /\ step = "PollOk"
    /\ Len(srvMsgs) < last_index

\* C5: a poll that fails with anything but NotFound prints a diagnostic and
\* changes neither the cursor, nor the printed messages, nor the stop signal;
\* the task sleeps, and after the sleep it fetches again unless the signal is set.
C5_TransientPollFailure ==
    /\ [][ step' = "PollError" =>
             /\ console' = "Erro ao buscar mensagens"
             /\ last_index' = last_index
             /\ printed' = printed
             /\ stop_event' = stop_event
             /\ pollpc' = "sleep" ]_vars
    /\ [][ (pollpc = "sleep" /\ pollpc' # "sleep") =>
             pollpc' = IF stop_event THEN "done" ELSE "fetch" ]_vars

\* a poll failed after messages had been printed, and the task sleeps
C5_Witness ==
    /\ step = "PollError"
    /\ pollpc = "sleep"
    /\ ~stop_event
    /\ printed # <<>>

\* C6: a poll that fails with NotFound sets the stop signal and ends the poll
\* task, which then neither fetches nor prints again; the step leaves the input
\* task and principal() where they are, and the input task ends only by reading
\* end-of-input or an interrupt itself.
C6_NotFoundStopsPollingOnly ==
    /\ [][ step' = "PollNotFound" =>
             /\ stop_event' /\ pollpc' = "done"
             /\ sendVars' = sendVars
             /\ ppc' = ppc ]_vars
    /\ [][ pollpc = "done" =>
             (pollpc' = "done" /\ printed' = printed /\ last_index' = last_index) ]_vars
    /\ [][ (sendpc # "done" /\ sendpc' = "done") =>
             (sendpc = "read" /\ step' = "SendRead" /\ console' = "Saindo...") ]_vars

\* the poll task ended on NotFound while principal() still awaits the input
\* task, and a send has just completed normally
C6_Witness ==
    /\ hist.init # "notfound"
    /\ pollpc = "done" /\ stop_event
    /\ ppc = "await_send"
    /\ step = "SendOk" /\ sendpc = "read"

\* C7: principal() leaves its wait for the input task only when that task is
\* done, sets the stop signal in that step, and only then waits for the poll
\* task: the input task never runs beside the bounded wait.
C7_ShutdownOrdering ==
    /\ [][ (ppc = "await_send" /\ ppc' # ppc) =>
             (sendpc = "done" /\ stop_event' /\ ppc' = "wait_poll") ]_vars
    /\ [][ step' = "CoordFinally" => (sendpc = "done" /\ stop_event') ]_vars
    /\ [](ppc = "wait_poll" => (stop_event /\ sendpc = "done"))
    /\ [](sendpc \in {"read", "sending"} => ppc = "await_send")

\* the bounded wait is running while the poll task has a fetch in flight
C7_Witness ==
    /\ ppc = "wait_poll" /\ stop_event /\ sendpc = "done"
    /\ pollpc = "fetch"

\* C8: once the input task is done, principal() eventually returns, also when
\* the poll task never takes another step.
C8_ShutdownTerminates == (sendpc = "done") ~> (ppc = "returned")

\* principal() has returned while the fetch of the poll task is still in flight
C8_Witness ==
    /\ ppc = "returned" /\ sendpc = "done"
    /\ pollpc = "fetch"

\* the handshake steps that fail
HandshakeFailure ==
    \/ step' \in {"PreListNotFound", "ConnectNotFound", "ConnectError"}
    \/ step' = "ConnectOk" /\ ~(token' # None /\ token' # <<>>)

\* C9: NotFound from the list or from connect, any other connect failure and a
\* connect answer with an empty or absent credential lead back to the username
\* prompt with no task started; the tasks exist only after a connect that
\* returned a non-empty credential, and they hold the session code and the
\* credential of that connect.
C9_HandshakeRetry ==
    /\ [][ HandshakeFailure =>
             (ppc' = "prompt_user" /\ pollpc' = "idle" /\ sendpc' = "idle") ]_vars
    /\ [][ (pollpc = "idle" /\ pollpc' # "idle") \/ (sendpc = "idle" /\ sendpc' # "idle") =>
             (step' = "ConnectOk" /\ token' # None /\ token' # <<>>) ]_vars
    /\ []((pollpc # "idle" \/ sendpc # "idle") =>
             /\ token # None /\ token # <<>> /\ token # Unbound
             /\ send_token = token
             /\ poll_code = hist.connCode /\ send_code = hist.connCode
             /\ hist.connCode = session_code)

\* a connect answered 200 with an empty credential and the prompt is shown again
C9_Witness ==
    /\ step = "ConnectOk"
    /\ token = <<>>
    /\ ppc = "prompt_user" /\ pollpc = "idle" /\ sendpc = "idle"

\* C10: end-of-input or an interrupt at a prompt of the handshake (username,
\* session code, name confirmation) ends the program cleanly, without an
\* unhandled error and with no task started.
C10_PromptInterruptExitsCleanly ==
    [][ (ppc \in {"prompt_user", "prompt_code", "confirm"} /\ ppc' \in {"returned", "interrupted", "crashed"}) =>
          (ppc' \in {"returned", "interrupted"} /\ pollpc' = "idle" /\ sendpc' = "idle") ]_vars


\* C11: a line that is blank after trimming starts no send and a non-blank line
\* starts exactly one; a send in flight ends by one answer only; a failed send
\* prints an error line, stores nothing and puts the task back at the prompt;
\* the task ends only by reading end-of-input or an interrupt.
C11_InputSendLoop ==
    /\ [][ (step' = "SendRead" /\ sendpc' # "done") =>
             /\ sendpc = "read"
             /\ sendpc' = IF text' = <<>> THEN "read" ELSE "sending"
             /\ srvMsgs' = srvMsgs ]_vars
    /\ [][ (sendpc = "sending" /\ sendpc' # "sending") =>
             /\ sendpc' = "read"
             /\ step' \in {"SendOk", "SendFail"}
             /\ text' = text ]_vars
    /\ [][ step' = "SendOk" =>
             srvMsgs' = Append(srvMsgs, [from |-> username, text |-> text, ts |-> 0]) ]_vars
    /\ [][ step' = "SendFail" =>
             /\ console' = "Erro ao enviar mensagem"
             /\ srvMsgs' = srvMsgs
             /\ sendpc' = "read" ]_vars
    /\ [][ (sendpc # "done" /\ sendpc' = "done") => (sendpc = "read" /\ step' = "SendRead") ]_vars

\* a send has just failed, the error line is printed and the task reads again
C11_Witness ==
    /\ step = "SendFail"
    /\ console = "Erro ao enviar mensagem"
    /\ sendpc = "read" /\ ppc = "await_send"
    /\ text = <<"h", "i">>


\* C12: while the input task waits for a line, however long, the poll task
\* still runs: its sleep ends and its fetch is answered, unless the process
\* ends; no input line is needed for that.
C12_ReadDoesNotStallPolling ==
    /\ (sendpc = "read" /\ pollpc = "sleep") ~> (pollpc # "sleep" \/ ~Running)
    /\ (sendpc = "read" /\ pollpc = "fetch") ~> (pollpc # "fetch" \/ ~Running)
    /\ (sendpc = "read" /\ pollpc = "init_fetch") ~> (pollpc # "init_fetch" \/ ~Running)

\* no line was ever entered at the message prompt, and the poll task has
\* printed a message that arrived meanwhile
C12_Witness ==
    /\ sendpc = "read" /\ text = Unbound
    /\ step = "PollOk"
    /\ printed # <<>>


\* the steps in which a request is answered by a failure other than NotFound
ServerErrorSteps == {"PreListError", "ConnectError", "InitFetchError", "PollError", "SendFail"}

\* C13: a step in which the server answers with a transient error ends neither
\* the process nor a task (the poll task leaves its loop after such a step only
\* when the stop signal was already set); the process ends only in a step of the operator
\* (end-of-input or interrupt at a prompt of the handshake) or in the shutdown
\* that follows the end of the input task, which itself ends only by reading
\* end-of-input or an interrupt.
C13_OnlyOperatorEndsProcess ==
    /\ [][ step' \in ServerErrorSteps =>
             /\ Running'
             /\ (pollpc' = "done" => (pollpc = "done" \/ stop_event))
             /\ (sendpc' = "done" => sendpc = "done")
             /\ stop_event' = stop_event ]_vars
    /\ [][ (Running /\ ~Running') =>
             \/ step' \in {"PromptUsername", "PromptCode", "ConfirmName"}
             \/ step' \in {"WaitPollDone", "WaitTimeout"} /\ sendpc = "done" ]_vars
    /\ [][ (sendpc # "done" /\ sendpc' = "done") => console' = "Saindo..." ]_vars

\* the initial fetch failed with a server error and the poll task fetches on
C13_Witness ==
    /\ step = "InitFetchError"
    /\ Running /\ pollpc = "fetch" /\ sendpc = "read"


\* C14: when the initial fetch is answered by NotFound the poll task ends at
\* once with the stop signal set: it never fetches again, never binds
\* last_index and never prints a message.
C14_InitialNotFoundEndsEngine ==
    /\ [](hist.init = "notfound" =>
             /\ pollpc = "done" /\ stop_event
             /\ last_index = NoIndex
             /\ ~hist.polled
             /\ printed = <<>>)
    /\ [][ step' = "InitFetchNotFound" =>
             (console' = "Sessao removida no servidor. Encerrando verificacao." /\ sendVars' = sendVars) ]_vars

\* the poll task ended on the NotFound of its initial fetch, the session exists
\* again with a message in it, and the input task goes on
C14_Witness ==
    /\ hist.init = "notfound"
    /\ srvExists /\ srvMsgs # <<>>
    /\ sendpc = "sending" /\ ppc = "await_send"

\* C15: when the initial fetch fails otherwise, last_index starts at 0 and the
\* loop is entered; the first successful poll that returns a non-empty list
\* prints the whole list from index 0, and no list position is printed twice.
C15_InitialErrorReplaysHistory ==
    /\ [][ step' = "InitFetchError" =>
             (last_index' = 0 /\ pollpc' = (IF stop_event THEN "done" ELSE "fetch") /\ printed' = printed) ]_vars
    /\ [][ (hist.init = "error" /\ last_index = 0 /\ step' = "PollOk" /\ srvMsgs # <<>>) =>
             /\ printed = <<>>
             /\ printed' = [k \in 1..Len(srvMsgs) |-> [pos |-> k - 1, line |-> ExpectedLine(srvMsgs[k])]]
             /\ last_index' = Len(srvMsgs) ]_vars
    /\ [](hist.init = "error" =>
             \A i, j \in 1..Len(printed) : i < j => printed[i].pos < printed[j].pos)

\* after a failed initial fetch a poll has just printed a history of two messages
C15_Witness ==
    /\ hist.init = "error"
    /\ step = "PollOk"
    /\ last_index = 2
    /\ Len(printed) = 2 /\ printed[1].pos = 0 /\ printed[2].pos = 1


\* the initial fetch has set the cursor, no poll has succeeded yet, and the
\* server list is the initially fetched list with messages appended since
GapAppended ==
    /\ hist.init = "ok" /\ ~hist.polled
    /\ IsPrefix(hist.fetched, srvMsgs)
    /\ Len(srvMsgs) > hist.initLen

\* the list position pos has been printed
Printed(pos) == \E k \in 1..Len(printed) : printed[k].pos = pos

C17_StopSignalOneWay ==
    /\ [](pollpc = "idle" => ~stop_event)
    /\ [][ stop_event => stop_event' ]_vars
    /\ [][ stop_event' # stop_event =>
             \/ step' = "CoordFinally" /\ sendpc = "done"
             \/ step' \in {"InitFetchNotFound", "PollNotFound"} ]_vars
    /\ [][ step' \in {"SendRead", "SendOk", "SendFail"} => stop_event' = stop_event ]_vars

\* the poll task has set the signal on NotFound, and the coordinator's finally
\* block has just set it a second time
C17_Witness ==
    /\ step = "CoordFinally" /\ stop_event
    /\ hist.init = "notfound" /\ pollpc = "done" /\ ppc = "wait_poll"

\* C18: the poll task reads stop_event once per iteration, at the head of the
\* loop before the fetch. No fetch is started while the signal is set; a fetch
\* in flight when the signal is set completes as usual (new messages printed,
\* cursor moved to the end of the list); the check that follows the iteration's
\* sleep ends the task; so, the fetch answering and the sleep ending, the
\* task is done after at most that one iteration.
C18_CooperativeCancellation ==
    /\ [][ (pollpc # "fetch" /\ pollpc' = "fetch") => ~stop_event ]_vars
    /\ [][ (stop_event /\ step' = "PollOk" /\ Len(srvMsgs) > last_index) =>
             /\ printed' = printed \o
                  [k \in 1..(Len(srvMsgs) - last_index) |->
                      [pos |-> last_index + k - 1, line |-> ExpectedLine(srvMsgs[last_index + k])]]
             /\ last_index' = Len(srvMsgs)
             /\ pollpc' = "sleep" ]_vars
    /\ [][ (stop_event /\ pollpc = "sleep" /\ pollpc' # "sleep") => pollpc' = "done" ]_vars
    /\ [][ (stop_event /\ pollpc = "fetch" /\ pollpc' # "fetch") => pollpc' \in {"sleep", "done"} ]_vars
    /\ (stop_event /\ pollpc \in {"fetch", "sleep"}) ~> (pollpc = "done" \/ ~Running)

\* the input task ended while a poll was in flight; the coordinator set the
\* signal, and the poll has then printed its new message
C18_Witness ==
    /\ stop_event /\ step = "PollOk" /\ ppc = "wait_poll"
    /\ pollpc = "sleep" /\ hist.init = "ok"
    /\ printed # <<>> /\ last_index = Len(srvMsgs)


\* the message now at list position pos has been printed, with its line
EmittedAt(pos) ==
    /\ Len(srvMsgs) > pos
    /\ \E k \in 1..Len(printed) :
         printed[k].pos = pos /\ printed[k].line = ExpectedLine(srvMsgs[pos + 1])

\* the run has left the assumptions of C19 for position pos: the list has lost
\* the position or no longer extends the lists fetched so far (not append-only),
\* the stop signal is set, or the process has ended
OutsideAssumptions(pos) ==
    \/ Len(srvMsgs) <= pos
    \/ ~hist.extending
    \/ stop_event
    \/ ~Running

\* C19: after a successful initial fetch, on a list that only grows, with the
\* stop signal unset and polls succeeding again and again, every message at a
\* position from the initial cursor on is eventually printed; and each
\* successful poll leaves every such message of the list it fetched printed.
C19_EventualDelivery ==
    /\ [][ (step' = "PollOk" /\ hist.init = "ok" /\ hist'.extending) =>
             \A p \in hist.initLen..(Len(srvMsgs) - 1) : EmittedAt(p)' ]_vars
    /\ \A p \in 0..(MaxLen - 1) :
         (hist.init = "ok" /\ p >= hist.initLen /\ Len(srvMsgs) > p)
            ~> (EmittedAt(p) \/ OutsideAssumptions(p))

\* the list was empty at the initial fetch and has grown to its bound since;
\* all its messages are printed while the client keeps running, unstopped
C19_Witness ==
    /\ hist.init = "ok" /\ hist.initLen = 0 /\ hist.extending
    /\ Len(srvMsgs) = MaxLen
    /\ \A p \in 0..(MaxLen - 1) : EmittedAt(p)
    /\ ~stop_event /\ Running /\ sendpc = "read" /\ pollpc = "sleep"

====
